---- MODULE Spec2Model ----
(***************************************************************************)
(* Model of the daily ETL + LLM analysis pipeline (src/main.py).           *)
(*                                                                         *)
(* One run of main() is a process r \in Runs that walks the stages         *)
(*   Fetch -> Connect -> StorePrice -> ReadLatest -> GenerateInsights      *)
(*         -> StoreRecommendation -> Done                                  *)
(* and may leave them for Aborted (main prints an abort line and returns)  *)
(* or Crashed (an exception escapes main).  The two PostgreSQL tables are  *)
(* shared by all runs.  Everything the outside world decides (the HTTP     *)
(* response, the outcome of a database statement, the model's reply) is an *)
(* input drawn with \E from a small set.                                   *)
(***************************************************************************)
EXTENDS Integers, Sequences, FiniteSets, TLC

\* ------------------------------------------------------------------ bounds
\* Runs of main() started in all in Spec, and runs executed back to back in
\* SpecSeq.
NRuns == 2
NSeqRuns == 3
\* Longest model reply (in lines) explored by SpecParse.
MaxLines == 4

\* The processes in which main() runs: one, and a second that may overlap it
\* ("if two runs overlap", spec section 5).  An ended process may be started
\* again while fewer than NRuns (NSeqRuns) runs have been started.
Runs == {1, 2}

\* Python's None and a present value x, as records so that the two compare.
None == [none |-> TRUE]
Some(x) == [none |-> FALSE, val |-> x]
\* The value standing for "float() / int() raised ValueError".
ParseError == -1

\* ------------------------------------------------------- payload (strings)
\* STOCK_SYMBOL
STOCK_SYMBOL == "IBM"

\* Keys of "Time Series (Daily)": ISO dates 2024-01-DD, written here as the
\* sequence of the two characters DD (the common prefix "2024-01-" dropped).
\* Python compares the keys as strings, PostgreSQL as calendar dates.
DateKeys == {<<0, 9>>, <<1, 0>>}

\* str.__lt__ on two keys: lexicographic, character by character.
RECURSIVE StrLess(_, _)
StrLess(a, b) ==
    IF b = <<>> THEN FALSE
    ELSE IF a = <<>> THEN TRUE
    ELSE IF Head(a) # Head(b) THEN Head(a) < Head(b)
    ELSE StrLess(Tail(a), Tail(b))

\* The DATE value PostgreSQL stores for a key (day number within 2024-01).
RECURSIVE DateOf(_)
DateOf(k) == IF k = <<>> THEN 0 ELSE 10 * DateOf(SubSeq(k, 1, Len(k) - 1)) + k[Len(k)]

\* The numeric strings that occur in the payloads of the model.
FieldStrings == {"100.00", "105.00", "99.00", "104.00", "101.50", "0", "1",
                 "1000000", "2000000", "1000000.5", "abc"}

\* float(s): the value in hundredths, or ParseError (ValueError).
ParseFloat(s) ==
    CASE s = "100.00" -> 10000
      [] s = "105.00" -> 10500
      [] s = "99.00" -> 9900
      [] s = "104.00" -> 10400
      [] s = "101.50" -> 10150
      [] s = "0" -> 0
      [] s = "1" -> 100
      [] s = "1000000" -> 100000000
      [] s = "2000000" -> 200000000
      [] s = "1000000.5" -> 100000050
      [] OTHER -> ParseError

\* int(s): the integer, or ParseError (ValueError: int() takes no decimal point).
ParseInt(s) ==
    CASE s = "0" -> 0
      [] s = "1" -> 1
      [] s = "1000000" -> 1000000
      [] s = "2000000" -> 2000000
      [] OTHER -> ParseError

\* One day's entry of the payload: eight string-encoded numbers.
DayA == [open |-> "100.00", high |-> "105.00", low |-> "99.00", close |-> "104.00",
         adjusted_close |-> "104.00", volume |-> "1000000",
         dividend_amount |-> "0", split_coefficient |-> "1"]
DayB == [open |-> "101.50", high |-> "105.00", low |-> "100.00", close |-> "104.00",
         adjusted_close |-> "104.00", volume |-> "2000000",
         dividend_amount |-> "0", split_coefficient |-> "1"]
DayBadFloat == [DayA EXCEPT !.close = "abc"]
DayBadInt == [DayA EXCEPT !.volume = "1000000.5"]

\* The "Time Series (Daily)" objects of the model: the empty mapping, one-day
\* mappings with a well-formed or a malformed entry, and a two-day mapping.
OneDay(k, e) == [j \in {k} |-> e]
TimeSeries ==
    {<<>>}
    \cup {OneDay(<<0, 9>>, DayA), OneDay(<<1, 0>>, DayA), OneDay(<<1, 0>>, DayB)}
    \cup {OneDay(<<0, 9>>, DayBadFloat), OneDay(<<1, 0>>, DayBadInt)}
    \cup {[k \in DateKeys |-> DayA]}

\* The HTTP exchange as requests.get sees it.
\*   transport: "ok" | "error" (RequestException: connection, timeout, non-2xx)
\*              | "badjson" (response.json() raises)
\*   has_error: the JSON body has the key "Error Message"
\*   series   : the value of "Time Series (Daily)", None when the key is absent
HttpResponses ==
    {[transport |-> t, has_error |-> FALSE, series |-> None] : t \in {"error", "badjson"}}
    \cup {[transport |-> "ok", has_error |-> e, series |-> s] :
             e \in BOOLEAN, s \in {None} \cup {Some(d) : d \in TimeSeries}}

\* -------------------------------------------------- fetch_daily_stock_data
\* What the function returns for one HTTP exchange: the time series, or None.
fetch_daily_stock_data(resp) ==
    IF resp.transport # "ok" THEN None       \* both except branches return None
    ELSE IF resp.has_error THEN None         \* "Error Message" in data
    ELSE resp.series                         \* data.get("Time Series (Daily)", None)

\* Which failure of the market client an exchange is ("Ok" when the series is
\* returned); bookkeeping only, the code prints it and returns None.
FetchKind(resp) ==
    IF resp.transport = "error" THEN "Transport"
    ELSE IF resp.transport = "badjson" THEN "Unexpected"
    ELSE IF resp.has_error THEN "ApiError"
    ELSE IF resp.series.none THEN "MissingData"
    ELSE "Ok"

\* Python truthiness of daily_data: `not daily_data` holds for None and for {}.
NotDailyData(d) == d.none \/ DOMAIN d.val = {}

\* --------------------------------------------------------- the two tables
\* Outcome of executing one SQL statement on the connection:
\*   "ok"     the statement runs
\*   "error"  cursor.execute raises psycopg2.Error, the connection stays usable
\*   "broken" the connection is lost: cursor.execute raises, and so does the
\*            conn.rollback() of the handler
DbOutcomes == {"ok", "error", "broken"}

\* sorted(daily_data.keys())[-1]: the key no other key is greater than.
LatestDateStr(d) == CHOOSE k \in DOMAIN d : \A j \in DOMAIN d : ~StrLess(k, j)

\* data_tuple: the ten values bound to the INSERT; any float()/int() that
\* raises makes the whole tuple ParseError.
DataTuple(latest_date_str, symbol, e) ==
    LET floats == {ParseFloat(e.open), ParseFloat(e.high), ParseFloat(e.low),
                   ParseFloat(e.close), ParseFloat(e.adjusted_close),
                   ParseFloat(e.dividend_amount), ParseFloat(e.split_coefficient)}
    IN  IF ParseError \in floats \/ ParseInt(e.volume) = ParseError
        THEN None
        ELSE Some([date |-> DateOf(latest_date_str), symbol |-> symbol,
                   open |-> ParseFloat(e.open), high |-> ParseFloat(e.high),
                   low |-> ParseFloat(e.low), close |-> ParseFloat(e.close),
                   adjusted_close |-> ParseFloat(e.adjusted_close),
                   volume |-> ParseInt(e.volume),
                   dividend_amount |-> ParseFloat(e.dividend_amount),
                   split_coefficient |-> ParseFloat(e.split_coefficient)])

\* The value of a timestamp column the INSERT does not name (last_updated,
\* created_at): the column default of schema.sql, the current time.
ColumnDefaultNow(now) == now

\* Mutant: a plain INSERT on a table whose date column carries no unique key.
InsertDailyStockData(tbl, t, now) ==
    tbl \cup {[date |-> t.date, symbol |-> t.symbol, open |-> t.open,
                high |-> t.high, low |-> t.low, close |-> t.close,
                adjusted_close |-> t.adjusted_close, volume |-> t.volume,
                dividend_amount |-> t.dividend_amount,
                split_coefficient |-> t.split_coefficient,
                last_updated |-> now]}

\* INSERT INTO daily_stock_data ... ON CONFLICT (date) DO UPDATE SET ...
\* on table tbl at transaction time now.  The conflict branch overwrites the
\* eight numeric columns and last_updated, and leaves symbol alone.
UpsertDailyStockData(tbl, t, now) ==
    IF \E p \in tbl : p.date = t.date
    THEN {IF p.date = t.date
          THEN [p EXCEPT !.open = t.open, !.high = t.high, !.low = t.low,
                         !.close = t.close, !.adjusted_close = t.adjusted_close,
                         !.volume = t.volume, !.dividend_amount = t.dividend_amount,
                         !.split_coefficient = t.split_coefficient,
                         !.last_updated = now]
          ELSE p : p \in tbl}
    ELSE tbl \cup {[date |-> t.date, symbol |-> t.symbol, open |-> t.open,
                    high |-> t.high, low |-> t.low, close |-> t.close,
                    adjusted_close |-> t.adjusted_close, volume |-> t.volume,
                    dividend_amount |-> t.dividend_amount,
                    split_coefficient |-> t.split_coefficient,
                    last_updated |-> ColumnDefaultNow(now)]}

\* Mutant: the conversions stand before the try, so a ValueError leaves the
\* function instead of being caught.
store_daily_data_uncaught(tbl, symbol, daily_data, out, now) ==
    IF NotDailyData(daily_data)
    THEN [tbl |-> tbl, ret |-> "False", raised |-> FALSE, began |-> FALSE]
    ELSE LET latest_date_str == LatestDateStr(daily_data.val)
             data_tuple == DataTuple(latest_date_str, symbol,
                                     daily_data.val[latest_date_str])
         IN  IF data_tuple.none
             THEN [tbl |-> tbl, ret |-> "None", raised |-> TRUE, began |-> FALSE]
             ELSE IF out = "ok"
             THEN [tbl |-> UpsertDailyStockData(tbl, data_tuple.val, now),
                   ret |-> "True", raised |-> FALSE, began |-> TRUE]
             ELSE IF out = "error"
             THEN [tbl |-> tbl, ret |-> "False", raised |-> FALSE, began |-> TRUE]
             ELSE [tbl |-> tbl, ret |-> "None", raised |-> TRUE, began |-> TRUE]

\* store_daily_data(conn, symbol, daily_data) on table tbl, the INSERT ending
\* as `out`, at time now.  The result: the table afterwards, the value
\* returned ("True" / "False"), or raised = TRUE when an exception leaves the
\* function (the handler's own conn.rollback() raised).
store_daily_data(tbl, symbol, daily_data, out, now) ==
    IF NotDailyData(daily_data)
    THEN [tbl |-> tbl, ret |-> "False", raised |-> FALSE, began |-> FALSE]
    ELSE LET latest_date_str == LatestDateStr(daily_data.val)
             data_tuple == DataTuple(latest_date_str, symbol,
                                     daily_data.val[latest_date_str])
         IN  IF data_tuple.none
             \* ValueError inside the try: caught, rollback of nothing, False
             THEN [tbl |-> tbl, ret |-> "False", raised |-> FALSE, began |-> FALSE]
             ELSE IF out = "ok"
             THEN [tbl |-> UpsertDailyStockData(tbl, data_tuple.val, now),
                   ret |-> "True", raised |-> FALSE, began |-> TRUE]
             ELSE IF out = "error"
             THEN [tbl |-> tbl, ret |-> "False", raised |-> FALSE, began |-> TRUE]
             ELSE [tbl |-> tbl, ret |-> "None", raised |-> TRUE, began |-> TRUE]

\* Mutant: ORDER BY date ASC, the oldest row.
SelectOldest(tbl) ==
    IF tbl = {} THEN None
    ELSE LET p == CHOOSE q \in tbl : \A o \in tbl : q.date <= o.date
         IN  Some(<<p.date, p.open, p.high, p.low, p.close, p.adjusted_close, p.volume>>)

\* SELECT date, open, high, low, close, adjusted_close, volume
\* FROM daily_stock_data ORDER BY date DESC LIMIT 1, then fetchone().
SelectLatest(tbl) ==
    IF tbl = {} THEN None
    ELSE LET p == CHOOSE q \in tbl : \A o \in tbl : o.date <= q.date
         IN  Some(<<p.date, p.open, p.high, p.low, p.close, p.adjusted_close, p.volume>>)

\* get_latest_data_from_db(conn): the row, or None on any error.
get_latest_data_from_db(tbl, out) == IF out = "ok" THEN SelectLatest(tbl) ELSE None

\* Mutant: a plain INSERT, no conflict clause and no unique key.
InsertDailyRecommendations(tbl, analysis_date, summary, recs3, now) ==
    tbl \cup {[analysis_date |-> analysis_date, llm_summary |-> summary,
                recommendation_1 |-> recs3[1], recommendation_2 |-> recs3[2],
                recommendation_3 |-> recs3[3], created_at |-> now]}

\* INSERT INTO daily_recommendations ... ON CONFLICT (analysis_date) DO UPDATE.
UpsertDailyRecommendations(tbl, analysis_date, summary, recs3, now) ==
    IF \E p \in tbl : p.analysis_date = analysis_date
    THEN {IF p.analysis_date = analysis_date
          THEN [p EXCEPT !.llm_summary = summary, !.recommendation_1 = recs3[1],
                         !.recommendation_2 = recs3[2], !.recommendation_3 = recs3[3],
                         !.created_at = now]
          ELSE p : p \in tbl}
    ELSE tbl \cup {[analysis_date |-> analysis_date, llm_summary |-> summary,
                    recommendation_1 |-> recs3[1], recommendation_2 |-> recs3[2],
                    recommendation_3 |-> recs3[3],
                    created_at |-> ColumnDefaultNow(now)]}

\* store_llm_recommendations(conn, analysis_date, summary, recs).
store_llm_recommendations(tbl, analysis_date, summary, recs3, out, now) ==
    IF out = "ok"
    THEN [tbl |-> UpsertDailyRecommendations(tbl, analysis_date, summary, recs3, now),
          ret |-> "True", raised |-> FALSE]
    ELSE IF out = "error"
    THEN [tbl |-> tbl, ret |-> "False", raised |-> FALSE]
    ELSE [tbl |-> tbl, ret |-> "None", raised |-> TRUE]

\* ------------------------------------------------------- get_llm_insights
\* Text is modelled as a sequence of tokens: a token is one of the four labels,
\* a blank " ", or a word.  A line is a sequence of tokens, "" is <<>>, and a
\* reply is the sequence of lines llm_response_text.split('\n') gives.
SummaryLabel == "Summary:"
RecLabel(i) == CASE i = 1 -> "Recommendation 1:"
                 [] i = 2 -> "Recommendation 2:"
                 [] i = 3 -> "Recommendation 3:"

\* line.startswith(label)
StartsWith(line, label) == Len(line) >= 1 /\ line[1] = label

\* label in line
Contains(line, label) == \E i \in 1..Len(line) : line[i] = label

\* line.replace(label, ""): every occurrence is removed.
Replace(line, label) == SelectSeq(line, LAMBDA t : t # label)

\* str.strip(): leading and trailing blanks removed.
RECURSIVE LStrip(_)
LStrip(line) == IF line # <<>> /\ Head(line) = " " THEN LStrip(Tail(line)) ELSE line
RECURSIVE RStrip(_)
RStrip(line) ==
    IF line # <<>> /\ line[Len(line)] = " "
    THEN RStrip(SubSeq(line, 1, Len(line) - 1))
    ELSE line
Strip(line) == RStrip(LStrip(line))

\* The parse state before the loop: summary = "", recs = ["", "", ""].
ParseStart == [summary |-> <<>>, recs |-> <<<<>>, <<>>, <<>>>>]

\* Mutant: the recommendation labels are matched with startswith as well.
ParseLinePrefixOnly(st, line) ==
    IF StartsWith(line, SummaryLabel)
    THEN [st EXCEPT !.summary = Strip(Replace(line, SummaryLabel))]
    ELSE IF StartsWith(line, RecLabel(1))
    THEN [st EXCEPT !.recs[1] = Strip(Replace(line, RecLabel(1)))]
    ELSE IF StartsWith(line, RecLabel(2))
    THEN [st EXCEPT !.recs[2] = Strip(Replace(line, RecLabel(2)))]
    ELSE IF StartsWith(line, RecLabel(3))
    THEN [st EXCEPT !.recs[3] = Strip(Replace(line, RecLabel(3)))]
    ELSE st

\* One iteration of `for line in lines`: the if / elif chain.
ParseLine(st, line) ==
    IF StartsWith(line, SummaryLabel)
    THEN [st EXCEPT !.summary = Strip(Replace(line, SummaryLabel))]
    ELSE IF Contains(line, RecLabel(1))
    THEN [st EXCEPT !.recs[1] = Strip(Replace(line, RecLabel(1)))]
    ELSE IF Contains(line, RecLabel(2))
    THEN [st EXCEPT !.recs[2] = Strip(Replace(line, RecLabel(2)))]
    ELSE IF Contains(line, RecLabel(3))
    THEN [st EXCEPT !.recs[3] = Strip(Replace(line, RecLabel(3)))]
    ELSE st

\* The whole loop over a reply.
RECURSIVE ParseFrom(_, _)
ParseFrom(st, text) ==
    IF text = <<>> THEN st ELSE ParseFrom(ParseLine(st, Head(text)), Tail(text))
ParseReply(text) == ParseFrom(ParseStart, text)

\* get_llm_insights(data) for a present row, the completion call ending as
\* `reply`: None (the call or the access to its content raised) or Some(text).
\* Returns the pair (summary, recs), (None, None) from the except branch.
get_llm_insights(data, reply) ==
    IF reply.none
    THEN [summary |-> None, recs |-> None]
    ELSE [summary |-> Some(ParseReply(reply.val).summary),
          recs |-> Some(ParseReply(reply.val).recs)]

\* `not llm_summary` in main: None or the empty string.
NotLlmSummary(s) == s.none \/ s.val = <<>>

\* Replies of the model used by the runs of main().
LineSummary == <<SummaryLabel, " ", "Strong day">>
LineRec1 == <<RecLabel(1), " ", "Buy">>
LineRec2 == <<RecLabel(2), " ", "Hold">>
LineRec3 == <<RecLabel(3), " ", "Diversify">>
LineRec1Bullet == <<"-", " ", RecLabel(1), " ", "Sell">>
ReplyFull == <<LineSummary, LineRec1, LineRec2, LineRec3>>
ReplyNoRec2 == <<LineSummary, LineRec1, LineRec3>>
ReplyNoSummary == <<LineRec1, LineRec2, LineRec3>>
LlmReplies == {None} \cup {Some(t) : t \in {ReplyFull, ReplyNoRec2, ReplyNoSummary}}

\* Lines and replies explored by the parser's own specification SpecParse.
ParseLines == {LineSummary, LineRec1, LineRec2, LineRec3, LineRec1Bullet,
               <<" ", SummaryLabel, " ", "Weak day">>,
               <<SummaryLabel, " ", "see", " ", RecLabel(3), " ", SummaryLabel>>,
               <<RecLabel(3), " ", RecLabel(1), " ", "Wait", " ">>,
               <<"Note">>}
ParseTexts == UNION {[1..n -> ParseLines] : n \in 1..MaxLines}

\* ------------------------------------------------------------------ state
VARIABLES
    daily_stock_data,       \* table: set of rows, columns as in the INSERT
    daily_recommendations,  \* table: set of rows
    clock,                  \* the database server's time: NOW() of the last transaction begun
    pc,                     \* pc[r]: where run r of main() stands
    daily_data,             \* main's local: what fetch_daily_stock_data returned
    conn,                   \* "none" | "open" | "closed": the run's connection
    txn,                    \* start time of the transaction open on conn, 0 if none
    latest_data,            \* main's local: the row read back, or None
    llm_summary,            \* main's locals: the parsed reply
    llm_recs,
    abort_line,             \* the "Pipeline aborted ..." line run r printed, "" if none
    fetch_kind,             \* history: how the fetch of run r ended
    store_ret,              \* history: what store_daily_data returned to main
    rec_ret,                \* history: what store_llm_recommendations returned
    llm_reply,              \* history: the completion the model gave run r
    conn_opens,             \* history: connections run r has acquired
    run_count,              \* SpecSeq: runs started so far
    last,                   \* SpecSeq: the previous run's inputs and the tables it left
    lines,                  \* SpecParse: llm_response_text.split('\n')
    line_no,                \* SpecParse: index of the next line of the for loop
    summary,                \* SpecParse: the loop's summary
    recs                    \* SpecParse: the loop's recs

run_vars == <<daily_stock_data, daily_recommendations, clock, pc, daily_data, conn, txn,
              latest_data, llm_summary, llm_recs, abort_line, fetch_kind, store_ret,
              rec_ret, llm_reply, conn_opens>>
seq_vars == <<run_count, last>>
parse_vars == <<lines, line_no, summary, recs>>
vars == <<run_vars, seq_vars, parse_vars>>

Terminal == {"Done", "Aborted", "Crashed"}
\* A process main() can be started in: its run has ended, or it has not run yet.
Idle == Terminal \cup {"NotStarted"}

InitRuns ==
    /\ daily_stock_data = {}
    /\ daily_recommendations = {}
    /\ clock = 0
    /\ pc = [r \in Runs |-> IF r = 1 THEN "Fetch" ELSE "NotStarted"]
    /\ daily_data = [r \in Runs |-> None]
    /\ conn = [r \in Runs |-> "none"]
    /\ txn = [r \in Runs |-> 0]
    /\ latest_data = [r \in Runs |-> None]
    /\ llm_summary = [r \in Runs |-> None]
    /\ llm_recs = [r \in Runs |-> None]
    /\ abort_line = [r \in Runs |-> ""]
    /\ fetch_kind = [r \in Runs |-> "NotYet"]
    /\ store_ret = [r \in Runs |-> "NotYet"]
    /\ rec_ret = [r \in Runs |-> "NotYet"]
    /\ llm_reply = [r \in Runs |-> None]
    /\ conn_opens = [r \in Runs |-> 0]
    /\ run_count = 1
    /\ last = None

InitParseIdle ==
    /\ lines = <<>>
    /\ line_no = 1
    /\ summary = ParseStart.summary
    /\ recs = ParseStart.recs

Init == InitRuns /\ InitParseIdle

\* ------------------------------------------------------------------ main()
\* Mutant: main goes on without looking at what the fetch returned.
AbortsAfterFetchNever(d) == FALSE

\* `if not daily_data:` after Step 1.
AbortsAfterFetch(d) == NotDailyData(d)

\* Step 1: daily_data = fetch_daily_stock_data(...); abort when it is falsy.
Fetch(r) ==
    /\ pc[r] = "Fetch"
    /\ \E resp \in HttpResponses :
         LET d == fetch_daily_stock_data(resp)
         IN  /\ daily_data' = [daily_data EXCEPT ![r] = d]
             /\ fetch_kind' = [fetch_kind EXCEPT ![r] = FetchKind(resp)]
             /\ IF AbortsAfterFetch(d)
                THEN /\ pc' = [pc EXCEPT ![r] = "Aborted"]
                     /\ abort_line' = [abort_line EXCEPT ![r] = "data fetching error"]
                ELSE /\ pc' = [pc EXCEPT ![r] = "Connect"]
                     /\ UNCHANGED abort_line
    /\ UNCHANGED <<daily_stock_data, daily_recommendations, clock, conn, txn, latest_data,
                   llm_summary, llm_recs, store_ret, rec_ret, llm_reply, conn_opens>>
    /\ UNCHANGED <<seq_vars, parse_vars>>

\* Step 2, first half: conn = get_db_connection(); abort when it is None.
Connect(r) ==
    /\ pc[r] = "Connect"
    /\ \E connected \in BOOLEAN :
         IF connected
         THEN /\ conn' = [conn EXCEPT ![r] = "open"]
              /\ conn_opens' = [conn_opens EXCEPT ![r] = @ + 1]
              /\ pc' = [pc EXCEPT ![r] = "StorePrice"]
              /\ UNCHANGED abort_line
         ELSE /\ pc' = [pc EXCEPT ![r] = "Aborted"]
              /\ abort_line' = [abort_line EXCEPT ![r] = "database connection error"]
              /\ UNCHANGED <<conn, conn_opens>>
    /\ UNCHANGED <<daily_stock_data, daily_recommendations, clock, daily_data, txn,
                   latest_data, llm_summary, llm_recs, fetch_kind, store_ret, rec_ret,
                   llm_reply>>
    /\ UNCHANGED <<seq_vars, parse_vars>>

\* Step 2, second half: store_daily_data(conn, STOCK_SYMBOL, daily_data); main
\* drops the value returned.  The INSERT opens a transaction at time clock + 1,
\* ended by the commit or the rollback.
StorePrice(r) ==
    /\ pc[r] = "StorePrice"
    /\ \E out \in DbOutcomes :
         LET res == store_daily_data(daily_stock_data, STOCK_SYMBOL, daily_data[r],
                                     out, clock + 1)
         IN  /\ daily_stock_data' = res.tbl
             /\ clock' = IF res.began THEN clock + 1 ELSE clock
             /\ store_ret' = [store_ret EXCEPT ![r] = res.ret]
             /\ pc' = [pc EXCEPT ![r] = IF res.raised THEN "Crashed" ELSE "ReadLatest"]
    /\ UNCHANGED <<daily_recommendations, daily_data, conn, txn, latest_data, llm_summary,
                   llm_recs, abort_line, fetch_kind, rec_ret, llm_reply, conn_opens>>
    /\ UNCHANGED <<seq_vars, parse_vars>>

\* Step 3: latest_data = get_latest_data_from_db(conn); abort (and close) when
\* it is None.  The SELECT opens a transaction that nothing ends before Step 5.
ReadLatest(r) ==
    /\ pc[r] = "ReadLatest"
    /\ \E out \in DbOutcomes :
         LET row == get_latest_data_from_db(daily_stock_data, out)
         IN  /\ latest_data' = [latest_data EXCEPT ![r] = row]
             /\ IF row.none
                THEN /\ pc' = [pc EXCEPT ![r] = "Aborted"]
                     /\ abort_line' = [abort_line EXCEPT ![r] = "no data was found"]
                     /\ conn' = [conn EXCEPT ![r] = "closed"]
                     /\ UNCHANGED <<clock, txn>>
                ELSE /\ pc' = [pc EXCEPT ![r] = "GenerateInsights"]
                     /\ clock' = clock + 1
                     /\ txn' = [txn EXCEPT ![r] = clock + 1]
                     /\ UNCHANGED <<abort_line, conn>>
    /\ UNCHANGED <<daily_stock_data, daily_recommendations, daily_data, llm_summary,
                   llm_recs, fetch_kind, store_ret, rec_ret, llm_reply, conn_opens>>
    /\ UNCHANGED <<seq_vars, parse_vars>>

\* Mutant: the index is off by one, the open price is taken for the date.
AnalysisDateWrongIndex(row) == row[2]

\* analysis_date = latest_data[0]
AnalysisDate(row) == row[1]

\* Step 4: llm_summary, llm_recs = get_llm_insights(latest_data); abort (and
\* close) on `not llm_summary`.
GenerateInsights(r) ==
    /\ pc[r] = "GenerateInsights"
    /\ \E reply \in LlmReplies :
         LET res == get_llm_insights(latest_data[r], reply)
         IN  /\ llm_reply' = [llm_reply EXCEPT ![r] = reply]
             /\ llm_summary' = [llm_summary EXCEPT ![r] = res.summary]
             /\ llm_recs' = [llm_recs EXCEPT ![r] = res.recs]
             /\ IF NotLlmSummary(res.summary)
                THEN /\ pc' = [pc EXCEPT ![r] = "Aborted"]
                     /\ abort_line' = [abort_line EXCEPT ![r] = "LLM analysis error"]
                     /\ conn' = [conn EXCEPT ![r] = "closed"]
                     /\ txn' = [txn EXCEPT ![r] = 0]
                ELSE /\ pc' = [pc EXCEPT ![r] = "StoreRecommendation"]
                     /\ UNCHANGED <<abort_line, conn, txn>>
    /\ UNCHANGED <<daily_stock_data, daily_recommendations, clock, daily_data,
                   latest_data, fetch_kind, store_ret, rec_ret, conn_opens>>
    /\ UNCHANGED <<seq_vars, parse_vars>>

\* Step 5: store_llm_recommendations(conn, analysis_date, llm_summary, llm_recs),
\* then conn.close().  The INSERT runs in the transaction the SELECT of Step 3
\* opened, so its NOW() is txn[r].
StoreRecommendation(r) ==
    /\ pc[r] = "StoreRecommendation"
    /\ \E out \in DbOutcomes :
         LET res == store_llm_recommendations(daily_recommendations,
                                              AnalysisDate(latest_data[r].val),
                                              llm_summary[r].val, llm_recs[r].val,
                                              out, txn[r])
         IN  /\ daily_recommendations' = res.tbl
             /\ rec_ret' = [rec_ret EXCEPT ![r] = res.ret]
             /\ IF res.raised
                THEN /\ pc' = [pc EXCEPT ![r] = "Crashed"]
                     /\ UNCHANGED conn
                ELSE /\ pc' = [pc EXCEPT ![r] = "Done"]
                     /\ conn' = [conn EXCEPT ![r] = "closed"]
    /\ txn' = [txn EXCEPT ![r] = 0]
    /\ UNCHANGED <<daily_stock_data, clock, daily_data, latest_data, llm_summary, llm_recs,
                   abort_line, fetch_kind, store_ret, llm_reply, conn_opens>>
    /\ UNCHANGED <<seq_vars, parse_vars>>

RunStep(r) ==
    \/ Fetch(r)
    \/ Connect(r)
    \/ StorePrice(r)
    \/ ReadLatest(r)
    \/ GenerateInsights(r)
    \/ StoreRecommendation(r)

\* The scheduler starts main() again in a process whose run has ended: fresh
\* locals, the tables as they are.
Restart(r) ==
    /\ pc[r] \in Idle
    /\ run_count' = run_count + 1
    /\ pc' = [pc EXCEPT ![r] = "Fetch"]
    /\ daily_data' = [daily_data EXCEPT ![r] = None]
    /\ conn' = [conn EXCEPT ![r] = "none"]
    /\ txn' = [txn EXCEPT ![r] = 0]
    /\ latest_data' = [latest_data EXCEPT ![r] = None]
    /\ llm_summary' = [llm_summary EXCEPT ![r] = None]
    /\ llm_recs' = [llm_recs EXCEPT ![r] = None]
    /\ abort_line' = [abort_line EXCEPT ![r] = ""]
    /\ fetch_kind' = [fetch_kind EXCEPT ![r] = "NotYet"]
    /\ store_ret' = [store_ret EXCEPT ![r] = "NotYet"]
    /\ rec_ret' = [rec_ret EXCEPT ![r] = "NotYet"]
    /\ llm_reply' = [llm_reply EXCEPT ![r] = None]
    /\ conn_opens' = [conn_opens EXCEPT ![r] = 0]
    /\ UNCHANGED <<daily_stock_data, daily_recommendations, clock, parse_vars>>

\* Spec: a further run, possibly beside one still under way.
NextRun(r) ==
    /\ run_count < NRuns
    /\ Restart(r)
    /\ UNCHANGED last

\* Runs of main() that may overlap (the scheduler firing while a run is on).
\* The first run is in process 1; process 2 starts once process 1 has.
Next == \E r \in Runs : RunStep(r) \/ NextRun(r)

Spec == Init /\ [][Next]_vars

\* SpecSeq: the next run, started after the run before it has ended.  `last`
\* keeps what the ended run was given, whether all its stages succeeded, and
\* the tables it left.
NewRun ==
    /\ run_count < NSeqRuns
    /\ Restart(1)
    /\ last' = Some([daily_data |-> daily_data[1], llm_reply |-> llm_reply[1],
                     complete |-> (pc[1] = "Done" /\ store_ret[1] = "True"
                                   /\ rec_ret[1] = "True"),
                     prices |-> daily_stock_data,
                     recommendations |-> daily_recommendations])

\* Runs of main() one after the other, never overlapping.
NextSeq == RunStep(1) \/ NewRun

SpecSeq == Init /\ [][NextSeq]_vars

\* The parsing loop of get_llm_insights alone, over every reply of ParseTexts.
InitParse ==
    /\ InitRuns
    /\ lines \in ParseTexts
    /\ line_no = 1
    /\ summary = ParseStart.summary
    /\ recs = ParseStart.recs

ParseLoop ==
    /\ line_no <= Len(lines)
    /\ LET st == ParseLine([summary |-> summary, recs |-> recs], lines[line_no])
       IN  /\ summary' = st.summary
           /\ recs' = st.recs
    /\ line_no' = line_no + 1
    /\ UNCHANGED <<lines, run_vars, seq_vars>>

NextParse == ParseLoop

SpecParse == InitParse /\ [][NextParse]_vars

\* ================================================================= claims
\* Helpers of the statements below (not part of the program).
\* The lexicographically maximal key of a payload, said directly.
LexMaxKey(d) == CHOOSE k \in DOMAIN d : \A j \in DOMAIN d \ {k} : StrLess(j, k)
\* The latest entry of a non-empty payload, and whether all its fields parse.
LatestEntry(d) == d[LexMaxKey(d)]
EntryParses(e) ==
    /\ \A f \in {"open", "high", "low", "close", "adjusted_close",
                 "dividend_amount", "split_coefficient"} : ParseFloat(e[f]) # ParseError
    /\ ParseInt(e.volume) # ParseError
ValidPayload(d) == ~NotDailyData(d) /\ EntryParses(LatestEntry(d.val))
PayloadDate(d) == DateOf(LexMaxKey(d.val))
PriceDates(tbl) == {p.date : p \in tbl}
\* The tables as the current run of SpecSeq found them.
PricesAtStart == IF last.none THEN {} ELSE last.val.prices
RecommendationsAtStart == IF last.none THEN {} ELSE last.val.recommendations

\* C1: a run whose fetch failed with a transport error or an API error payload
\* ends in Aborted without acquiring a connection or calling either store, and
\* both tables are as the run found them.
C1_FetchFailureWritesNothing ==
    \A r \in Runs :
        fetch_kind[r] \in {"Transport", "ApiError"} =>
            /\ pc[r] = "Aborted"
            /\ abort_line[r] = "data fetching error"
            /\ conn_opens[r] = 0
            /\ store_ret[r] = "NotYet"
            /\ rec_ret[r] = "NotYet"
            /\ daily_stock_data = PricesAtStart
            /\ daily_recommendations = RecommendationsAtStart

\* C1 witness: a later run is aborted by an API error payload while the tables
\* hold rows of earlier runs.
C1_Witness ==
    \E r \in Runs :
        /\ fetch_kind[r] = "ApiError"
        /\ pc[r] = "Aborted"
        /\ daily_stock_data # {}
        /\ daily_recommendations # {}

\* C2 (as claimed): after a store that committed a valid payload and a read
\* that returned a row, the row's date is the payload's maximal date key,
\* whatever the table held before.
C2_Original ==
    \A r \in Runs :
        (pc[r] = "GenerateInsights" /\ ValidPayload(daily_data[r]) /\ store_ret[r] = "True")
            => latest_data[r].val[1] = PayloadDate(daily_data[r])

\* C2 (amended): after a store that committed a valid payload and a read that
\* returned a row, the row's date is the greatest date in the price table; it
\* is never earlier than the payload's maximal date key, and equals it exactly
\* when the table held no later date before the run.
C2_ReadsGreatestStoredDate ==
    \A r \in Runs :
        (pc[r] = "GenerateInsights" /\ ValidPayload(daily_data[r]) /\ store_ret[r] = "True")
            => LET got == latest_data[r].val[1]
                   mine == PayloadDate(daily_data[r])
               IN  /\ got \in PriceDates(daily_stock_data)
                   /\ \A d \in PriceDates(daily_stock_data) : d <= got
                   /\ got >= mine
                   /\ (got = mine) <=> ~(\E d \in PriceDates(PricesAtStart) : d > mine)

\* C2 witness: the row read back is later than everything in the payload.
C2_Witness ==
    \E r \in Runs :
        /\ pc[r] = "GenerateInsights"
        /\ ValidPayload(daily_data[r])
        /\ store_ret[r] = "True"
        /\ latest_data[r].val[1] > PayloadDate(daily_data[r])

\* C3, first part: each table holds at most one row per key.
UniqueKeys ==
    /\ \A p, q \in daily_stock_data : p.date = q.date => p = q
    /\ \A p, q \in daily_recommendations : p.analysis_date = q.analysis_date => p = q

\* C3, second part: a store_daily_data that commits for a date already in the
\* table leaves exactly one row for that date, with the values of this call
\* and a last_updated strictly later than the row had.
UpsertOverwrites ==
    \A r \in Runs :
        (pc[r] = "StorePrice" /\ pc'[r] = "ReadLatest" /\ store_ret'[r] = "True") =>
            LET d == PayloadDate(daily_data[r])
                e == LatestEntry(daily_data[r].val)
            IN  \A p \in daily_stock_data :
                    p.date = d =>
                        \E q \in daily_stock_data' :
                            /\ {x \in daily_stock_data' : x.date = d} = {q}
                            /\ q.open = ParseFloat(e.open)
                            /\ q.high = ParseFloat(e.high)
                            /\ q.low = ParseFloat(e.low)
                            /\ q.close = ParseFloat(e.close)
                            /\ q.adjusted_close = ParseFloat(e.adjusted_close)
                            /\ q.volume = ParseInt(e.volume)
                            /\ q.dividend_amount = ParseFloat(e.dividend_amount)
                            /\ q.split_coefficient = ParseFloat(e.split_coefficient)
                            /\ q.last_updated > p.last_updated

\* C3: after any sequence of upserts, also of overlapping runs, each table
\* holds at most one row per date, and upserting a date again leaves one row
\* with the later call's values and a strictly later last_updated.
C3_OneRowPerDate == []UniqueKeys /\ [][UpsertOverwrites]_vars

\* C3 witness: two overlapping runs have committed different values for the
\* same date, and the table holds one row for it.
C3_Witness ==
    \E r1, r2 \in Runs :
        /\ r1 # r2
        /\ store_ret[r1] = "True" /\ store_ret[r2] = "True"
        /\ pc[r1] = "ReadLatest" /\ pc[r2] = "ReadLatest"
        /\ PayloadDate(daily_data[r1]) = PayloadDate(daily_data[r2])
        /\ LatestEntry(daily_data[r1].val) # LatestEntry(daily_data[r2].val)
        /\ Cardinality({p \in daily_stock_data : p.date = PayloadDate(daily_data[r1])}) = 1

\* C10: every row of daily_recommendations has the date of a row present in
\* daily_stock_data, after any sequence of sequential or overlapping runs.
C10_RecommendationHasPriceRow ==
    \A x \in daily_recommendations :
        \E p \in daily_stock_data : p.date = x.analysis_date

\* C10 witness: a run has stored a recommendation for a date that is not the
\* date it fetched.
C10_Witness ==
    \E r \in Runs :
        /\ rec_ret[r] = "True"
        /\ store_ret[r] = "True"
        /\ AnalysisDate(latest_data[r].val) # PayloadDate(daily_data[r])
        /\ \E x \in daily_recommendations :
               x.analysis_date = AnalysisDate(latest_data[r].val)

\* The labels a reply has no line for (no line starts with the label).
HasLine(text, label) == \E n \in 1..Len(text) : StartsWith(text[n], label)

\* C4 (as claimed): when the completion call succeeds, a label without a line
\* leaves its field empty, and the run is not aborted for it: it goes on to
\* StoreRecommendation.
C4_MissingLineIsNotFatal ==
    \A r \in Runs :
        ~llm_reply[r].none =>
            /\ (~HasLine(llm_reply[r].val, SummaryLabel) => llm_summary[r].val = <<>>)
            /\ \A i \in 1..3 :
                   ~HasLine(llm_reply[r].val, RecLabel(i)) => llm_recs[r].val[i] = <<>>
            /\ abort_line[r] # "LLM analysis error"

\* C5 (as claimed): the stages are visited in the order Fetch, (Connect,)
\* StorePrice, ReadLatest, GenerateInsights, StoreRecommendation, Done; Fetch,
\* ReadLatest and GenerateInsights may go to Aborted instead, StorePrice always
\* goes on to ReadLatest, and a run ends in Done or Aborted (from where the
\* process's next run starts at Fetch).
C5_Transitions ==
    {<<"NotStarted", "Fetch">>, <<"Done", "Fetch">>, <<"Aborted", "Fetch">>,
     <<"Fetch", "Connect">>, <<"Fetch", "Aborted">>,
     <<"Connect", "StorePrice">>, <<"Connect", "Aborted">>,
     <<"StorePrice", "ReadLatest">>,
     <<"ReadLatest", "GenerateInsights">>, <<"ReadLatest", "Aborted">>,
     <<"GenerateInsights", "StoreRecommendation">>, <<"GenerateInsights", "Aborted">>,
     <<"StoreRecommendation", "Done">>}
C5_StageOrder ==
    [][\A r \in Runs : pc'[r] # pc[r] => <<pc[r], pc'[r]>> \in C5_Transitions]_vars

\* C6 (as claimed): a run acquires the connection at most once, and when the
\* run has ended every connection it acquired is closed.
C6_ConnectionClosedOnExit ==
    \A r \in Runs :
        /\ conn_opens[r] <= 1
        /\ (pc[r] \in Terminal /\ conn_opens[r] >= 1) => conn[r] = "closed"

\* Whether the latest entry of the payload of run r has a field that float()
\* or int() rejects.
Unparsable(r) == ~NotDailyData(daily_data[r]) /\ ~EntryParses(LatestEntry(daily_data[r].val))

PricesNoTs(tbl) ==
    {[date |-> p.date, symbol |-> p.symbol, open |-> p.open, high |-> p.high,
      low |-> p.low, close |-> p.close, adjusted_close |-> p.adjusted_close,
      volume |-> p.volume, dividend_amount |-> p.dividend_amount,
      split_coefficient |-> p.split_coefficient] : p \in tbl}
RecommendationsNoTs(tbl) ==
    {[analysis_date |-> x.analysis_date, llm_summary |-> x.llm_summary,
      recommendation_1 |-> x.recommendation_1, recommendation_2 |-> x.recommendation_2,
      recommendation_3 |-> x.recommendation_3] : x \in tbl}

\* The current run of SpecSeq repeats a run that completed all its stages: the
\* same payload and, once the model has answered, the same reply.
Rerun ==
    /\ ~last.none
    /\ last.val.complete
    /\ pc[1] # "Fetch"
    /\ daily_data[1] = last.val.daily_data
    /\ llm_reply[1].none \/ llm_reply[1] = last.val.llm_reply

\* C8: at every point of a run that repeats the completed run before it, both
\* tables hold the rows that run left, equal in every column but last_updated
\* and created_at, and the rows of every other date are untouched, timestamps
\* included.
C8_RerunIsIdempotent ==
    Rerun =>
        /\ Cardinality(daily_stock_data) = Cardinality(last.val.prices)
        /\ Cardinality(daily_recommendations) = Cardinality(last.val.recommendations)
        /\ PricesNoTs(daily_stock_data) = PricesNoTs(last.val.prices)
        /\ RecommendationsNoTs(daily_recommendations)
               = RecommendationsNoTs(last.val.recommendations)
        /\ \A p \in last.val.prices :
               p.date # PayloadDate(daily_data[1]) => p \in daily_stock_data
        /\ \A x \in last.val.recommendations :
               (\E p \in daily_stock_data : p.date > x.analysis_date)
                   => x \in daily_recommendations

\* C8 witness: the repeating run is Done, both its stores committed, and the
\* price table holds a row of another date.
C8_Witness ==
    /\ Rerun
    /\ pc[1] = "Done"
    /\ store_ret[1] = "True"
    /\ rec_ret[1] = "True"
    /\ \E p \in daily_stock_data : p.date # PayloadDate(daily_data[1])

\* The value a line gives for a label: every occurrence removed, trimmed.
LineValue(line, label) == Strip(Replace(line, label))

\* The remainder of a line after its first token, trimmed.
AfterLabel(line) == Strip(Tail(line))

\* What a reply parses to if every label is matched as a prefix and the value
\* is what follows it: the last line starting with the label decides.
PrefixValue(text, label) ==
    LET hits == {n \in 1..Len(text) : StartsWith(text[n], label)}
    IN  IF hits = {} THEN <<>>
        ELSE AfterLabel(text[CHOOSE n \in hits : \A m \in hits : m <= n])

\* Which field a line sets in the program: 0 the summary, i recs[i - 1], and
\* -1 none.  "Summary:" must start the line; "Recommendation i:" may stand
\* anywhere on a line that does not start with "Summary:", the lowest i wins.
FieldOf(line) ==
    IF StartsWith(line, SummaryLabel) THEN 0
    ELSE IF \E i \in 1..3 : Contains(line, RecLabel(i))
    THEN CHOOSE i \in 1..3 :
             Contains(line, RecLabel(i)) /\ \A j \in 1..(i - 1) : ~Contains(line, RecLabel(j))
    ELSE 0 - 1
LabelOf(f) == IF f = 0 THEN SummaryLabel ELSE RecLabel(f)
FieldValue(text, f) ==
    LET hits == {n \in 1..Len(text) : FieldOf(text[n]) = f}
    IN  IF hits = {} THEN <<>>
        ELSE LineValue(text[CHOOSE n \in hits : \A m \in hits : m <= n], LabelOf(f))

ParseDone == lines # <<>> /\ line_no > Len(lines)

====
